---- MODULE Spec2Model ----
(***************************************************************************)
(* yt-cli (src/src/main.rs): the concurrent feed aggregation               *)
(* (YTFeed::from_channels, YTChannel::videos) and the coordination of the  *)
(* ueberzug overlay process (UeberzugAction::send, YTCli::ueberzug,        *)
(* YTVideo::thumbnail, main).                                              *)
(*                                                                         *)
(* The specifications share the variables:                                 *)
(*   SpecAgg      from_channels over every combination of task outcomes    *)
(*   SpecFetch    from_channels with every task running YTChannel::videos  *)
(*                against the feed cache                                   *)
(*   SpecOverlay  main's selection loop, the preview threads and the       *)
(*                overlay consumer thread (FairSpecOverlay: with the       *)
(*                consumer scheduled; SpecSenders: with the sender of      *)
(*                every command recorded)                                  *)
(*   SpecTopics   YTCli::topics over configurations and filter strings     *)
(***************************************************************************)
EXTENDS Naturals, Integers, Sequences, FiniteSets, Bags, TLC

VARIABLES
    \* ---- feed aggregation (YTFeed::from_channels, YTChannel::videos)
    channels,   \* the Vec<YTChannel> handed to from_channels (channel ids)
    outcome,    \* SpecAgg: what each task's channel.videos() ends with
    tpc,        \* per task: position of the spawned thread
    tres,       \* per task: the Vec<YTVideo> the thread returned
    fpc,        \* position of from_channels itself
    spawned,    \* tasks spawned so far (loop of lines 276-280)
    joined,     \* tasks joined so far (loop of lines 282-284)
    videos,     \* the local Vec `videos` of from_channels
    file,       \* feed cache: channel id -> the file <cache>/feed/<id>.json
    tseen,      \* per task: what the freshness test of line 342 saw
    tnet,       \* per task: network requests made (line 343)
    twrites,    \* per task: times the task created/wrote the cache file
    \* ---- overlay coordination (statics of lines 14-21, YTCli::ueberzug,
    \*      YTVideo::thumbnail, main)
    enable,     \* UEBERZUG_ENABLE
    once,       \* UEBERZUG_INIT: "new", "running", "done" or "poisoned"
    tx,         \* UEBERZUG_TX holds a Sender
    queue,      \* the mpsc channel: commands sent and not yet received
    costate,    \* consumer thread: "none", "running", "exited", "panicked"
    copanic,    \* consumer thread: what it panicked on: "write", "tput"; or "none"
    lastaction, \* the consumer's local `lastaction`
    sig,        \* a SIGWINCH is pending for the consumer's trap
    pipe,       \* the overlay process still reads its stdin
    written,    \* the lines written to the overlay's stdin, in order
    enq,        \* every command a send() has put on the channel, in order
    enqby,      \* the thread that sent each of them (0 for main, p for preview
                \* p), kept by the specification that asks about senders
    spawns,     \* overlay processes spawned (line 169)
    cothreads,  \* consumer threads spawned (line 179)
    resizes,    \* resize events so far
    ppc,        \* per preview thread: position in YTVideo::thumbnail
    pvid,       \* per preview thread: self.id
    pw,         \* per preview thread: width
    pfound,     \* per preview thread: what path.exists() of line 405 gave:
                \* "present", "absent"; "unknown" before the test
    pstored,    \* per preview thread: its download and file write succeeded
    psent,      \* per preview thread: the commands its sends have enqueued
    thumb,      \* thumbnail cache: video id -> state of <cache>/thumb/<id>.jpg
    mpc,        \* main: position in the loop of lines 543-572
    mpanic,     \* main: the expect() that ended it, or "none"
    sessions,   \* main: times skim() has returned
    exitsent,   \* main: the send of line 570 has returned Ok
    swept,      \* main: clean_cache has run
    \* ---- topic selection (YTCli::topics)
    config,     \* the section names of the configuration
    filter,     \* the filter string, as its sequence of characters
    allowed,    \* the local `allowed` of topics()
    selected,   \* the names of the topics returned
    topc        \* position of topics()

topicVars == <<config, filter, allowed, selected, topc>>

\* The variables of each part; both carry the variables of topic selection,
\* which neither part touches.
feedVars == <<channels, outcome, tpc, tres, fpc, spawned, joined, videos,
              file, tseen, tnet, twrites, topicVars>>

overlayVars == <<enable, once, tx, queue, costate, copanic, lastaction, sig, pipe,
                 written, enq, enqby, spawns, cothreads, resizes, ppc, pvid, pw, pfound,
                 pstored, psent, thumb, mpc, mpanic, sessions, exitsent, swept,
                 topicVars>>

vars == <<feedVars, overlayVars>>

----------------------------------------------------------------------------
(* Bounds of the model *)

MaxChannels == 2
MaxVideos == 2
MaxTasks == 2
MaxPreviews == 2
MaxSelections == 1
MaxResizes == 1

(* Program constants *)

CacheMaxAge == 1800

----------------------------------------------------------------------------
(* Data *)

ChannelIds == {"UC1", "UC2"}
\* Two instants are enough for an order and for ties.
Timestamps == {1, 2}

\* A YTVideo: only id and timestamp matter to aggregation.
YTVideo(i, t) == [id |-> i, timestamp |-> t]

SeqsUpTo(S, n) == UNION {[1..k -> S] : k \in 0..n}

\* The video list a task with index i returns for the timestamps ts:
\* ids are <<i, position>>, so every video of a run is distinguishable.
VideoList(i, ts) == [k \in 1..Len(ts) |-> YTVideo(<<i, k>>, ts[k])]

Failure == [ok |-> FALSE, vids |-> <<>>]
Success(vs) == [ok |-> TRUE, vids |-> vs]

\* What one task can end with: a panic, or a list of up to MaxVideos videos.
OutcomeCodes ==
    {[ok |-> FALSE, ts |-> <<>>]}
        \cup {[ok |-> TRUE, ts |-> t] : t \in SeqsUpTo(Timestamps, MaxVideos)}
OutcomeOf(i, code) == IF code.ok THEN Success(VideoList(i, code.ts)) ELSE Failure

AggChannels(n) == [i \in 1..n |-> IF i % 2 = 1 THEN "UC1" ELSE "UC2"]

----------------------------------------------------------------------------
(* The overlay's commands and the lines the consumer writes *)

\* UeberzugAction: Add( String, usize ), Remove, Exit (and None for the
\* consumer's `lastaction` before any command).
Cmd(op, id, w) == [op |-> op, id |-> id, w |-> w]
AddCmd(id, w) == Cmd("add", id, w)
RemoveCmd == Cmd("remove", "", 0)
ExitCmd == Cmd("exit", "", 0)
NoCmd == Cmd("none", "", 0)

\* Lines 187-194: the add line of a dequeued Add( path, offset ).
AddLine(id, offset) ==
    [action |-> "add", id |-> id, x |-> offset + 3, width |-> offset, by |-> "command"]

\* Line 195: the remove line.
RemoveLine ==
    [action |-> "remove", id |-> "", x |-> 0, width |-> 0, by |-> "command"]

\* Lines 216-223: the add line of a resize replay, from `tput cols`.
ResizeLine(id, cols) ==
    [action |-> "add", id |-> id, x |-> (cols \div 2) + 1, width |-> cols \div 2,
     by |-> "resize"]

LineOf(cmd) == IF cmd.op = "add" THEN AddLine(cmd.id, cmd.w) ELSE RemoveLine

ThumbVideos == {"va", "vb"}
\* context.width of a preview
PreviewWidths == {40}
\* What `tput cols` parses to: a width, or 0 for anything not a number.
TermCols == {0, 100}

PreviewIds == 1..MaxPreviews

\* The overlay part of the state while only the feed is being aggregated,
\* and the feed part while the selection loop runs.
OverlayIdle ==
    /\ enable = TRUE /\ once = "new" /\ tx = FALSE /\ queue = <<>>
    /\ costate = "none" /\ copanic = "none" /\ lastaction = NoCmd
    /\ sig = FALSE /\ pipe = FALSE /\ written = <<>> /\ enq = <<>>
    /\ enqby = [on |-> FALSE, by |-> <<>>]
    /\ spawns = 0 /\ cothreads = 0 /\ resizes = 0
    /\ ppc = [p \in PreviewIds |-> "idle"]
    /\ pvid = [p \in PreviewIds |-> "va"]
    /\ pw = [p \in PreviewIds |-> 0]
    /\ pfound = [p \in PreviewIds |-> "unknown"]
    /\ pstored = [p \in PreviewIds |-> FALSE]
    /\ psent = [p \in PreviewIds |-> <<>>]
    /\ thumb = [v \in ThumbVideos |-> "absent"]
    /\ mpc = "feed" /\ mpanic = "none" /\ sessions = 0
    /\ exitsent = FALSE /\ swept = FALSE

\* The topic part of the state while topics() is not being looked at.
TopicsIdle ==
    /\ config = {} /\ filter = <<>> /\ allowed = <<>>
    /\ selected = {} /\ topc = "done"

----------------------------------------------------------------------------
(* Pure functions of from_channels *)

RECURSIVE InsertByKeyUnstable(_, _)
InsertByKeyUnstable(sorted, e) ==
    IF sorted = <<>> THEN <<e>>
    ELSE IF Head(sorted).timestamp < e.timestamp
         THEN <<Head(sorted)>> \o InsertByKeyUnstable(Tail(sorted), e)
         ELSE <<e>> \o sorted

\* Insertion of e into an ascending list, after every element whose key is
\* not greater: what keeps a sort stable.
RECURSIVE InsertByKey(_, _)
InsertByKey(sorted, e) ==
    IF sorted = <<>> THEN <<e>>
    ELSE IF Head(sorted).timestamp <= e.timestamp
         THEN <<Head(sorted)>> \o InsertByKey(Tail(sorted), e)
         ELSE <<e>> \o sorted

\* videos.sort_by_key( |e| e.timestamp ): ascending, stable.
RECURSIVE SortByKey(_)
SortByKey(s) ==
    IF s = <<>> THEN <<>>
    ELSE InsertByKey(SortByKey(SubSeq(s, 1, Len(s) - 1)), s[Len(s)])

NoReverse(s) == s

\* videos.reverse()
Reverse(s) == [k \in 1..Len(s) |-> s[Len(s) + 1 - k]]

AppendOverwrite(vs, r) == r

\* videos.append( r )
AppendJoined(vs, r) == vs \o r

\* task.join().as_mut().unwrap_or( &mut Vec::new() ): the list of a task that
\* returned, the empty list of one that panicked.
JoinResult(i) == IF tpc[i] = "returned" THEN tres[i] ELSE <<>>

----------------------------------------------------------------------------
(* YTFeed::from_channels *)

TaskIds == 1..Len(channels)

TaskEnded(i) == tpc[i] \in {"returned", "panicked"}

\* for channel in channels { tasks.push( std::thread::spawn( ... ) ) }
Spawn ==
    /\ fpc = "spawn"
    /\ spawned < Len(channels)
    /\ spawned' = spawned + 1
    /\ tpc' = [tpc EXCEPT ![spawned + 1] = "running"]
    /\ UNCHANGED <<channels, outcome, tres, fpc, joined, videos, file, tseen, tnet, twrites, overlayVars>>

SpawnDone ==
    /\ fpc = "spawn"
    /\ spawned = Len(channels)
    /\ fpc' = "join"
    /\ UNCHANGED <<channels, outcome, tpc, tres, spawned, joined, videos, file, tseen, tnet, twrites, overlayVars>>

\* SpecAgg: the closure of a spawned thread ends with the outcome the run
\* gives channel.videos(): a list, or a panic.
TaskFinish(i) ==
    /\ tpc[i] = "running"
    /\ tpc' = [tpc EXCEPT ![i] = IF outcome[i].ok THEN "returned" ELSE "panicked"]
    /\ tres' = [tres EXCEPT ![i] = outcome[i].vids]
    /\ UNCHANGED <<channels, outcome, fpc, spawned, joined, videos, file, tseen, tnet, twrites, overlayVars>>

\* for task in tasks { videos.append( task.join()... ) }: join blocks until
\* the thread has ended.
Join ==
    /\ fpc = "join"
    /\ joined < Len(channels)
    /\ TaskEnded(joined + 1)
    /\ videos' = AppendJoined(videos, JoinResult(joined + 1))
    /\ joined' = joined + 1
    /\ UNCHANGED <<channels, outcome, tpc, tres, fpc, spawned, file, tseen, tnet, twrites, overlayVars>>

JoinDone ==
    /\ fpc = "join"
    /\ joined = Len(channels)
    /\ fpc' = "sort"
    /\ UNCHANGED <<channels, outcome, tpc, tres, spawned, joined, videos, file, tseen, tnet, twrites, overlayVars>>

Sort ==
    /\ fpc = "sort"
    /\ videos' = SortByKey(videos)
    /\ fpc' = "reverse"
    /\ UNCHANGED <<channels, outcome, tpc, tres, spawned, joined, file, tseen, tnet, twrites, overlayVars>>

ReverseStep ==
    /\ fpc = "reverse"
    /\ videos' = Reverse(videos)
    /\ fpc' = "done"
    /\ UNCHANGED <<channels, outcome, tpc, tres, spawned, joined, file, tseen, tnet, twrites, overlayVars>>

NotChecked == [checked |-> FALSE, exists |-> FALSE, age |-> 0]

NoFile == [exists |-> FALSE, age |-> 0, valid |-> FALSE, feed |-> <<>>]

InitAgg ==
    /\ \E n \in 0..MaxChannels :
         /\ channels = AggChannels(n)
         /\ \E codes \in [1..n -> OutcomeCodes] :
                outcome = [i \in 1..n |-> OutcomeOf(i, codes[i])]
         /\ tpc = [i \in 1..n |-> "unspawned"]
         /\ tres = [i \in 1..n |-> <<>>]
         /\ tseen = [i \in 1..n |-> NotChecked]
         /\ tnet = [i \in 1..n |-> 0]
         /\ twrites = [i \in 1..n |-> 0]
    /\ fpc = "spawn"
    /\ spawned = 0
    /\ joined = 0
    /\ videos = <<>>
    /\ file = [c \in ChannelIds |-> NoFile]
    /\ OverlayIdle
    /\ TopicsIdle

NextAgg ==
    \/ Spawn
    \/ SpawnDone
    \/ \E i \in TaskIds : TaskFinish(i)
    \/ Join
    \/ JoinDone
    \/ Sort
    \/ ReverseStep

SpecAgg == InitAgg /\ [][NextAgg]_vars

----------------------------------------------------------------------------
(* YTChannel::videos, run by every task of SpecFetch *)

\* The feed the channel's endpoint serves, and the (older) list a cache entry
\* holds when the run starts.
UpstreamFeed(c) == <<YTVideo(<<c, 2>>, 2), YTVideo(<<c, 1>>, 1)>>
CachedFeed(c) == <<YTVideo(<<c, 1>>, 1)>>

\* Ages (seconds since modification) a cache entry has when the run starts.
CacheAges == {0, CacheMaxAge - 1, CacheMaxAge, CacheMaxAge + 1}

NeedsFetchInclusive(f) == ~f.exists \/ f.age >= CacheMaxAge

\* !path.exists() || modified().elapsed() > Duration::from_secs( 1800 )
NeedsFetch(f) == ~f.exists \/ f.age > CacheMaxAge

\* Line 342: the freshness test.
CheckCache(i) ==
    /\ tpc[i] = "running"
    /\ tseen' = [tseen EXCEPT ![i] =
                    [checked |-> TRUE, exists |-> file[channels[i]].exists,
                     age |-> file[channels[i]].age]]
    /\ tpc' = [tpc EXCEPT ![i] = IF NeedsFetch(file[channels[i]]) THEN "get" ELSE "read"]
    /\ UNCHANGED <<channels, outcome, tres, fpc, spawned, joined, videos, file, tnet, twrites, overlayVars>>

\* Line 343: reqwest::blocking::get( ... ).unwrap()
HttpGet(i) ==
    /\ tpc[i] = "get"
    /\ tnet' = [tnet EXCEPT ![i] = @ + 1]
    /\ \E ok \in BOOLEAN :
         tpc' = [tpc EXCEPT ![i] = IF ok THEN "create" ELSE "panicked"]
    /\ UNCHANGED <<channels, outcome, tres, fpc, spawned, joined, videos, file, tseen, twrites, overlayVars>>

\* Line 344: File::create( &path ) truncates the file, or fails.
CreateFile(i) ==
    /\ tpc[i] = "create"
    /\ \/ /\ file' = [file EXCEPT ![channels[i]] =
                        [exists |-> TRUE, age |-> 0, valid |-> FALSE, feed |-> <<>>]]
          /\ twrites' = [twrites EXCEPT ![i] = @ + 1]
          /\ tpc' = [tpc EXCEPT ![i] = "xq"]
       \/ /\ tpc' = [tpc EXCEPT ![i] = "panicked"]
          /\ UNCHANGED <<file, twrites>>
    /\ UNCHANGED <<channels, outcome, tres, fpc, spawned, joined, videos, tseen, tnet, overlayVars>>

\* Lines 346-359: xq is spawned with the file as its stdout, fed the response
\* and waited for. Spawning, reading the response or writing to xq's stdin can
\* fail (expect: panic); xq itself can fail on what it is fed, which wait()
\* does not report, and then leaves the file without a complete document.
RunXq(i) ==
    /\ tpc[i] = "xq"
    /\ \/ /\ file' = [file EXCEPT ![channels[i]] =
                        [exists |-> TRUE, age |-> 0, valid |-> TRUE,
                         feed |-> UpstreamFeed(channels[i])]]
          /\ tpc' = [tpc EXCEPT ![i] = "read"]
       \/ /\ tpc' = [tpc EXCEPT ![i] = "read"]
          /\ UNCHANGED file
       \/ /\ tpc' = [tpc EXCEPT ![i] = "panicked"]
          /\ UNCHANGED file
    /\ UNCHANGED <<channels, outcome, tres, fpc, spawned, joined, videos, tseen, tnet, twrites, overlayVars>>

\* Lines 362-381: the file is read and parsed; anything but a complete
\* document panics ("Invalid JSON provided").
ReadParse(i) ==
    /\ tpc[i] = "read"
    /\ IF file[channels[i]].exists /\ file[channels[i]].valid
       THEN /\ tres' = [tres EXCEPT ![i] = file[channels[i]].feed]
            /\ tpc' = [tpc EXCEPT ![i] = "returned"]
       ELSE /\ tpc' = [tpc EXCEPT ![i] = "panicked"]
            /\ UNCHANGED tres
    /\ UNCHANGED <<channels, outcome, fpc, spawned, joined, videos, file, tseen, tnet, twrites, overlayVars>>

\* A cache file when a run starts: absent, a complete entry of some age, or
\* an entry an earlier, interrupted run left without a complete document.
InitialFiles(c) ==
    {NoFile}
        \cup {[exists |-> TRUE, age |-> a, valid |-> TRUE, feed |-> CachedFeed(c)] :
                 a \in CacheAges}
        \cup {[exists |-> TRUE, age |-> CacheMaxAge, valid |-> FALSE, feed |-> <<>>]}

InitFetch ==
    /\ \E n \in 1..MaxTasks :
         /\ channels \in [1..n -> ChannelIds]
         /\ outcome = [i \in 1..n |-> Failure]
         /\ tpc = [i \in 1..n |-> "unspawned"]
         /\ tres = [i \in 1..n |-> <<>>]
         /\ tseen = [i \in 1..n |-> NotChecked]
         /\ tnet = [i \in 1..n |-> 0]
         /\ twrites = [i \in 1..n |-> 0]
    /\ fpc = "spawn"
    /\ spawned = 0
    /\ joined = 0
    /\ videos = <<>>
    /\ \E f \in [ChannelIds -> UNION {InitialFiles(c) : c \in ChannelIds}] :
         /\ \A c \in ChannelIds : f[c] \in InitialFiles(c)
         /\ file = f
    /\ OverlayIdle
    /\ TopicsIdle

NextFetch ==
    \/ Spawn
    \/ SpawnDone
    \/ \E i \in TaskIds : CheckCache(i)
    \/ \E i \in TaskIds : HttpGet(i)
    \/ \E i \in TaskIds : CreateFile(i)
    \/ \E i \in TaskIds : RunXq(i)
    \/ \E i \in TaskIds : ReadParse(i)
    \/ Join
    \/ JoinDone
    \/ Sort
    \/ ReverseStep

SpecFetch == InitFetch /\ [][NextFetch]_vars

----------------------------------------------------------------------------
(* The overlay: UeberzugAction::send, YTCli::ueberzug, YTVideo::thumbnail,  *)
(* the consumer thread and main's selection loop                           *)

mainVars == <<mpc, mpanic, sessions, exitsent, swept>>
prevVars == <<ppc, pvid, pw, pfound, pstored, psent>>
chanVars == <<queue, enq, enqby>>
consVars == <<costate, copanic, lastaction, written>>
initVars == <<once, tx, spawns, cothreads>>
envVars == <<sig, pipe, resizes>>

\* The process runs until main returns or panics; its other threads end
\* with it.
Alive == mpc \notin {"exited", "panicked"}

SendOkNeedsConsumer == costate = "running"

\* UeberzugAction::send, lines 31-42: Ok(()) when UEBERZUG_TX is None, else
\* the channel's send, which fails once the receiver (owned by the consumer
\* thread) is gone.
SendOk == ~tx \/ costate = "running"

\* The sender of a command that is not a preview thread.
MainThread == 0

\* The record of senders: kept or not, and empty at the start.
Senders(kept) == [on |-> kept, by |-> <<>>]
SentBy(h, who) == IF tx /\ h.on THEN [h EXCEPT !.by = Append(@, who)] ELSE h

SentFirst(q, cmd) == IF tx THEN <<cmd>> \o q ELSE q

\* What a successful send leaves on the channel.
Sent(q, cmd) == IF tx THEN Append(q, cmd) ELSE q

\* -------- main, lines 543-572

\* skim calls preview() for a highlighted item; with UEBERZUG_ENABLE it spawns
\* a thread running thumbnail( w ) (lines 431-434).
SkimPreview(p, v, w) ==
    /\ mpc = "skim"
    /\ enable
    /\ ppc[p] = "idle"
    /\ \A q \in PreviewIds : q < p => ppc[q] # "idle"
    /\ ppc' = [ppc EXCEPT ![p] = "once"]
    /\ pvid' = [pvid EXCEPT ![p] = v]
    /\ pw' = [pw EXCEPT ![p] = w]
    /\ UNCHANGED <<feedVars, enable, thumb, mainVars, pfound, pstored, psent,
                   chanVars, consVars, initVars, envVars>>

\* skim returns the selection: some videos (line 546) or none (line 566).
SkimReturn(nonempty) ==
    /\ mpc = "skim"
    /\ nonempty => sessions < MaxSelections
    /\ mpc' = IF nonempty THEN "remove" ELSE "exit"
    /\ sessions' = sessions + 1
    /\ UNCHANGED <<feedVars, enable, thumb, mpanic, exitsent, swept, prevVars,
                   chanVars, consVars, initVars, envVars>>

\* Line 547: UeberzugAction::Remove.send().expect( ... )
MainSendRemove ==
    /\ mpc = "remove"
    /\ IF SendOk
       THEN /\ queue' = Sent(queue, RemoveCmd)
            /\ enq' = Sent(enq, RemoveCmd)
            /\ enqby' = SentBy(enqby, MainThread)
            /\ mpc' = "mpv"
            /\ UNCHANGED mpanic
       ELSE /\ mpc' = "panicked"
            /\ mpanic' = "send"
            /\ UNCHANGED chanVars
    /\ UNCHANGED <<feedVars, enable, thumb, sessions, exitsent, swept, prevVars,
                   consVars, initVars, envVars>>

\* Lines 549-562: Command::new( "mpv" )...spawn().expect( "Failed to start mpv" )
MpvSpawn ==
    /\ mpc = "mpv"
    /\ \/ /\ mpc' = "wait"
          /\ UNCHANGED mpanic
       \/ /\ mpc' = "panicked"
          /\ mpanic' = "mpv"
    /\ UNCHANGED <<feedVars, enable, thumb, sessions, exitsent, swept, prevVars,
                   chanVars, consVars, initVars, envVars>>

\* Lines 563-564: .wait().expect( "Failed to wait for mpv" ): the player has
\* exited and the loop goes round, or the wait fails and main panics.
MpvWait ==
    /\ mpc = "wait"
    /\ \/ /\ mpc' = "skim"
          /\ UNCHANGED mpanic
       \/ /\ mpc' = "panicked"
          /\ mpanic' = "wait"
    /\ UNCHANGED <<feedVars, enable, thumb, sessions, exitsent, swept, prevVars,
                   chanVars, consVars, initVars, envVars>>

\* Line 570: UeberzugAction::Exit.send().expect( "Failed to close ueberzug" )
MainSendExit ==
    /\ mpc = "exit"
    /\ IF SendOk
       THEN /\ queue' = Sent(queue, ExitCmd)
            /\ enq' = Sent(enq, ExitCmd)
            /\ enqby' = SentBy(enqby, MainThread)
            /\ mpc' = "clean"
            /\ exitsent' = TRUE
            /\ UNCHANGED mpanic
       ELSE /\ mpc' = "panicked"
            /\ mpanic' = "send"
            /\ UNCHANGED <<chanVars, exitsent>>
    /\ UNCHANGED <<feedVars, enable, thumb, sessions, swept, prevVars,
                   consVars, initVars, envVars>>

\* Line 572: clean_cache( ... ).expect( "Failed to clear cache" ): the cache
\* directories are swept and main returns, which ends the process; or the
\* sweep fails and main panics.
CleanCache ==
    /\ mpc = "clean"
    /\ \/ /\ swept' = TRUE
          /\ mpc' = "exited"
          /\ UNCHANGED mpanic
       \/ /\ mpc' = "panicked"
          /\ mpanic' = "clean"
          /\ UNCHANGED swept
    /\ UNCHANGED <<feedVars, enable, thumb, sessions, exitsent, prevVars,
                   chanVars, consVars, initVars, envVars>>

\* -------- YTVideo::thumbnail, lines 399-415, on a preview thread

OnceEnterUnguarded(p) ==
    /\ Alive
    /\ ppc[p] = "once"
    /\ IF once \in {"new", "running"}
       THEN /\ once' = "running"
            /\ ppc' = [ppc EXCEPT ![p] = "ueberzug"]
       ELSE /\ ppc' = [ppc EXCEPT ![p] = "check"]
            /\ UNCHANGED once
    /\ UNCHANGED <<feedVars, enable, thumb, mainVars, pvid, pw, pfound, pstored, psent,
                   chanVars, consVars, tx, spawns, cothreads, envVars>>

\* Line 400: UEBERZUG_INIT.call_once( YTCli::ueberzug ). The first caller
\* runs the closure; a caller that finds it running blocks until it has
\* ended; a caller that finds the Once poisoned (the closure panicked) panics.
OnceEnter(p) ==
    /\ Alive
    /\ ppc[p] = "once"
    /\ once # "running"
    /\ CASE once = "new" ->
              /\ once' = "running"
              /\ ppc' = [ppc EXCEPT ![p] = "ueberzug"]
         [] once = "done" ->
              /\ ppc' = [ppc EXCEPT ![p] = "check"]
              /\ UNCHANGED once
         [] once = "poisoned" ->
              /\ ppc' = [ppc EXCEPT ![p] = "panicked"]
              /\ UNCHANGED once
    /\ UNCHANGED <<feedVars, enable, thumb, mainVars, pvid, pw, pfound, pstored, psent,
                   chanVars, consVars, tx, spawns, cothreads, envVars>>

\* YTCli::ueberzug, lines 164-233, run inside call_once: the process is
\* spawned, the channel made, its Sender stored in UEBERZUG_TX and the
\* consumer thread started; or the spawn fails (expect) and the panic
\* poisons the Once.
Ueberzug(p) ==
    /\ Alive
    /\ ppc[p] = "ueberzug"
    /\ \/ /\ spawns' = spawns + 1
          /\ cothreads' = cothreads + 1
          /\ pipe' = TRUE
          /\ tx' = TRUE
          /\ queue' = <<>>
          /\ costate' = "running"
          /\ lastaction' = NoCmd
          /\ once' = "done"
          /\ ppc' = [ppc EXCEPT ![p] = "check"]
          /\ UNCHANGED <<enq, enqby, written, copanic>>
       \/ /\ once' = "poisoned"
          /\ ppc' = [ppc EXCEPT ![p] = "panicked"]
          /\ UNCHANGED <<spawns, cothreads, pipe, tx, chanVars, consVars>>
    /\ UNCHANGED <<feedVars, enable, thumb, mainVars, pvid, pw, pfound, pstored, psent,
                   sig, resizes>>

\* Line 405: if !path.exists()
CheckThumb(p) ==
    /\ Alive
    /\ ppc[p] = "check"
    /\ pfound' = [pfound EXCEPT ![p] =
                     IF thumb[pvid[p]] # "absent" THEN "present" ELSE "absent"]
    /\ ppc' = [ppc EXCEPT ![p] = IF thumb[pvid[p]] # "absent" THEN "add" ELSE "remove"]
    /\ UNCHANGED <<feedVars, enable, thumb, mainVars, pvid, pw, pstored, psent,
                   chanVars, consVars, initVars, envVars>>

\* Line 406: UeberzugAction::Remove.send().expect( ... )
ThumbSendRemove(p) ==
    /\ Alive
    /\ ppc[p] = "remove"
    /\ IF SendOk
       THEN /\ queue' = Sent(queue, RemoveCmd)
            /\ enq' = Sent(enq, RemoveCmd)
            /\ enqby' = SentBy(enqby, p)
            /\ psent' = [psent EXCEPT ![p] = Append(@, RemoveCmd)]
            /\ ppc' = [ppc EXCEPT ![p] = "get"]
       ELSE /\ ppc' = [ppc EXCEPT ![p] = "panicked"]
            /\ UNCHANGED <<chanVars, psent>>
    /\ UNCHANGED <<feedVars, enable, thumb, mainVars, pvid, pw, pfound, pstored,
                   consVars, initVars, envVars>>

\* Line 408: reqwest::blocking::get( ... ).unwrap()
ThumbGet(p) ==
    /\ Alive
    /\ ppc[p] = "get"
    /\ \E ok \in BOOLEAN :
         ppc' = [ppc EXCEPT ![p] = IF ok THEN "create" ELSE "panicked"]
    /\ UNCHANGED <<feedVars, enable, thumb, mainVars, pvid, pw, pfound, pstored, psent,
                   chanVars, consVars, initVars, envVars>>

\* Line 409: File::create( &path ).expect( ... ) leaves an empty file.
ThumbCreate(p) ==
    /\ Alive
    /\ ppc[p] = "create"
    /\ \/ /\ thumb' = [thumb EXCEPT ![pvid[p]] = "empty"]
          /\ ppc' = [ppc EXCEPT ![p] = "write"]
       \/ /\ ppc' = [ppc EXCEPT ![p] = "panicked"]
          /\ UNCHANGED thumb
    /\ UNCHANGED <<feedVars, enable, mainVars, pvid, pw, pfound, pstored, psent,
                   chanVars, consVars, initVars, envVars>>

ThumbWriteIgnoringErrors(p) ==
    /\ Alive
    /\ ppc[p] = "write"
    /\ \/ /\ thumb' = [thumb EXCEPT ![pvid[p]] = "complete"]
          /\ pstored' = [pstored EXCEPT ![p] = TRUE]
       \/ UNCHANGED <<thumb, pstored>>
    /\ ppc' = [ppc EXCEPT ![p] = "add"]
    /\ UNCHANGED <<feedVars, enable, mainVars, pvid, pw, pfound, psent,
                   chanVars, consVars, initVars, envVars>>

\* Line 411: file.write( &res.bytes().unwrap() ).unwrap(): the body is read
\* and written, or either fails and the thread panics.
ThumbWrite(p) ==
    /\ Alive
    /\ ppc[p] = "write"
    /\ \/ /\ thumb' = [thumb EXCEPT ![pvid[p]] = "complete"]
          /\ pstored' = [pstored EXCEPT ![p] = TRUE]
          /\ ppc' = [ppc EXCEPT ![p] = "add"]
       \/ /\ ppc' = [ppc EXCEPT ![p] = "panicked"]
          /\ UNCHANGED <<thumb, pstored>>
    /\ UNCHANGED <<feedVars, enable, mainVars, pvid, pw, pfound, psent,
                   chanVars, consVars, initVars, envVars>>

\* Line 414: UeberzugAction::Add( self.id.clone(), width ).send().expect( ... )
ThumbSendAdd(p) ==
    /\ Alive
    /\ ppc[p] = "add"
    /\ IF SendOk
       THEN /\ queue' = Sent(queue, AddCmd(pvid[p], pw[p]))
            /\ enq' = Sent(enq, AddCmd(pvid[p], pw[p]))
            /\ enqby' = SentBy(enqby, p)
            /\ psent' = [psent EXCEPT ![p] = Append(@, AddCmd(pvid[p], pw[p]))]
            /\ ppc' = [ppc EXCEPT ![p] = "done"]
       ELSE /\ ppc' = [ppc EXCEPT ![p] = "panicked"]
            /\ UNCHANGED <<chanVars, psent>>
    /\ UNCHANGED <<feedVars, enable, thumb, mainVars, pvid, pw, pfound, pstored,
                   consVars, initVars, envVars>>

\* -------- the consumer thread, lines 179-232

WriteErrorIgnored(open) == FALSE

\* Line 197: .unwrap() on the writeln! of a command: a write to a pipe
\* nobody reads fails, and the failure panics.
WritePanics(open) == ~open

RememberAddsOnly(cmd, prev) == IF cmd.op = "add" THEN cmd ELSE prev

\* Line 185: lastaction = Some( v.clone() ), for every command received.
Remember(cmd, prev) == cmd

ReplaysAnyCommand(last) == last.op # "none"

\* Lines 201-203, 225: the resize loop acts only when lastaction is an Add.
Replays(last) == last.op = "add"

\* Line 196: UeberzugAction::Exit => break
RecvBreaks(cmd) == cmd.op = "exit"

\* One round of the consumer's loop, lines 183-231.
\* Lines 184-198: recv_timeout gives a command or times out. A command
\* becomes lastaction; Add and Remove are written as one line, and a failed
\* write panics (unwrap); Exit breaks out of the loop and the thread ends.
\* Lines 200-228: then a pending SIGWINCH is taken; if lastaction is an Add
\* its line is written again with the placement `tput cols` gives (a failed
\* write is ignored: unwrap_or_default; failing to run tput panics: expect).
\* A round that receives nothing and finds no signal changes nothing.
ConsumerLoop ==
    /\ Alive
    /\ costate = "running"
    /\ queue # <<>> \/ sig
    /\ LET got == queue # <<>>
           cmd == IF got THEN Head(queue) ELSE NoCmd
           last == IF got THEN Remember(cmd, lastaction) ELSE lastaction
           wfail == got /\ ~RecvBreaks(cmd) /\ WritePanics(pipe)
           afterRecv == IF got /\ ~RecvBreaks(cmd) /\ pipe
                        THEN Append(written, LineOf(cmd))
                        ELSE written
       IN /\ queue' = IF got THEN Tail(queue) ELSE queue
          /\ lastaction' = last
          /\ IF got /\ RecvBreaks(cmd)
             THEN /\ costate' = "exited"
                  /\ UNCHANGED <<written, sig, copanic>>
             ELSE IF wfail
             THEN /\ costate' = "panicked"
                  /\ copanic' = "write"
                  /\ UNCHANGED <<written, sig>>
             ELSE IF sig /\ Replays(last)
             THEN /\ sig' = FALSE
                  /\ \/ \E cols \in TermCols :
                          /\ written' = IF pipe
                                        THEN Append(afterRecv, ResizeLine(last.id, cols))
                                        ELSE afterRecv
                          /\ UNCHANGED <<costate, copanic>>
                     \/ /\ costate' = "panicked"
                        /\ copanic' = "tput"
                        /\ written' = afterRecv
             ELSE /\ sig' = FALSE
                  /\ written' = afterRecv
                  /\ UNCHANGED <<costate, copanic>>
    /\ UNCHANGED <<feedVars, enable, thumb, mainVars, prevVars, enq, enqby, initVars,
                   pipe, resizes>>

\* -------- the environment

\* The terminal is resized: SIGWINCH becomes pending for the trap the
\* consumer set up (line 181).
Resize ==
    /\ Alive
    /\ costate = "running"
    /\ ~sig
    /\ resizes < MaxResizes
    /\ sig' = TRUE
    /\ resizes' = resizes + 1
    /\ UNCHANGED <<feedVars, enable, thumb, mainVars, prevVars, chanVars,
                   consVars, initVars, pipe>>

\* The overlay process dies: writes to its stdin fail from now on.
OverlayDies ==
    /\ Alive
    /\ pipe
    /\ pipe' = FALSE
    /\ UNCHANGED <<feedVars, enable, thumb, mainVars, prevVars, chanVars,
                   consVars, initVars, sig, resizes>>

FeedIdle ==
    /\ channels = <<>> /\ outcome = <<>> /\ tpc = <<>> /\ tres = <<>>
    /\ fpc = "done" /\ spawned = 0 /\ joined = 0 /\ videos = <<>>
    /\ file = [c \in ChannelIds |-> NoFile]
    /\ tseen = <<>> /\ tnet = <<>> /\ twrites = <<>>

\* main has its (non-empty) feed and enters the loop of line 543; the
\* thumbnail of one video may be in the cache from an earlier run.
OverlayStart ==
    /\ FeedIdle
    /\ TopicsIdle
    /\ enable \in BOOLEAN
    /\ once = "new" /\ tx = FALSE /\ queue = <<>>
    /\ costate = "none" /\ copanic = "none" /\ lastaction = NoCmd
    /\ sig = FALSE /\ pipe = FALSE /\ written = <<>> /\ enq = <<>>
    /\ spawns = 0 /\ cothreads = 0 /\ resizes = 0
    /\ ppc = [p \in PreviewIds |-> "idle"]
    /\ pvid = [p \in PreviewIds |-> "va"]
    /\ pw = [p \in PreviewIds |-> 0]
    /\ pfound = [p \in PreviewIds |-> "unknown"]
    /\ pstored = [p \in PreviewIds |-> FALSE]
    /\ psent = [p \in PreviewIds |-> <<>>]
    /\ thumb \in {t \in [ThumbVideos -> {"absent", "complete"}] : t["vb"] = "absent"}
    /\ mpc = "skim" /\ mpanic = "none" /\ sessions = 0
    /\ exitsent = FALSE /\ swept = FALSE

InitOverlay == OverlayStart /\ enqby = Senders(FALSE)

\* The same start, with the sender of every command recorded.
InitSenders == OverlayStart /\ enqby = Senders(TRUE)

NextOverlay ==
    \/ \E p \in PreviewIds, v \in ThumbVideos, w \in PreviewWidths : SkimPreview(p, v, w)
    \/ \E nonempty \in BOOLEAN : SkimReturn(nonempty)
    \/ MainSendRemove
    \/ MpvSpawn
    \/ MpvWait
    \/ MainSendExit
    \/ CleanCache
    \/ \E p \in PreviewIds : OnceEnter(p)
    \/ \E p \in PreviewIds : Ueberzug(p)
    \/ \E p \in PreviewIds : CheckThumb(p)
    \/ \E p \in PreviewIds : ThumbSendRemove(p)
    \/ \E p \in PreviewIds : ThumbGet(p)
    \/ \E p \in PreviewIds : ThumbCreate(p)
    \/ \E p \in PreviewIds : ThumbWrite(p)
    \/ \E p \in PreviewIds : ThumbSendAdd(p)
    \/ ConsumerLoop
    \/ Resize
    \/ OverlayDies

SpecOverlay == InitOverlay /\ [][NextOverlay]_vars

\* The consumer is a thread of its own: while it can make a round it is
\* scheduled to make one.
FairSpecOverlay == SpecOverlay /\ WF_vars(ConsumerLoop)

SpecSenders == InitSenders /\ [][NextOverlay]_vars

----------------------------------------------------------------------------
(* YTCli::topics *)

MaxFilterLen == 3

\* The characters of filters and names: two letters, the separators of line
\* 90 (white space, comma, semicolon), and "d", which stands for the word
\* `default` as a whole.
Letters == {"a", "b", "d"}
Separators == {" ", ",", ";"}
DefaultName == <<"d">>
TopicNames == {DefaultName, <<"a">>, <<"b">>, <<"a", "b">>}

\* Line 90: char::is_whitespace( c ) || c == ',' || c == ';'
IsSeparator(c) == c \in Separators

\* Lines 89-91: filter.split( ... ), the pieces between separators, empty
\* ones included.
RECURSIVE Split(_)
Split(s) ==
    IF \A k \in 1..Len(s) : ~IsSeparator(s[k]) THEN <<s>>
    ELSE LET k == CHOOSE k \in 1..Len(s) :
                     IsSeparator(s[k]) /\ \A j \in 1..(k - 1) : ~IsSeparator(s[j])
         IN <<SubSeq(s, 1, k - 1)>> \o Split(SubSeq(s, k + 1, Len(s)))

\* Lines 92-95: .map( String::from ).collect::<String>() joins the pieces
\* with nothing between them.
RECURSIVE Collect(_)
Collect(pieces) ==
    IF pieces = <<>> THEN <<>> ELSE Head(pieces) \o Collect(Tail(pieces))

\* str::contains: t occurs in s as a run of consecutive characters.
Contains(s, t) == \E i \in 0..(Len(s) - Len(t)) : SubSeq(s, i + 1, i + Len(t)) = t

\* Line 102: a section is dropped if it is "default", or if `allowed` is not
\* empty and does not contain its name.
Keeps(topic, al) == ~(topic = DefaultName \/ (Len(al) > 0 /\ ~Contains(al, topic)))

\* Lines 88-96
SplitFilter ==
    /\ topc = "split"
    /\ allowed' = Collect(Split(filter))
    /\ topc' = "select"
    /\ UNCHANGED <<config, filter, selected>>
    /\ UNCHANGED <<channels, outcome, tpc, tres, fpc, spawned, joined, videos,
                   file, tseen, tnet, twrites>>
    /\ UNCHANGED <<enable, thumb, mainVars, prevVars, chanVars, consVars,
                   initVars, envVars>>

\* Lines 98-128: filter_map over the sections
SelectTopics ==
    /\ topc = "select"
    /\ selected' = {t \in config : Keeps(t, allowed)}
    /\ topc' = "done"
    /\ UNCHANGED <<config, filter, allowed>>
    /\ UNCHANGED <<channels, outcome, tpc, tres, fpc, spawned, joined, videos,
                   file, tseen, tnet, twrites>>
    /\ UNCHANGED <<enable, thumb, mainVars, prevVars, chanVars, consVars,
                   initVars, envVars>>

InitTopics ==
    /\ config \in SUBSET TopicNames
    /\ filter \in SeqsUpTo(Letters \cup Separators, MaxFilterLen)
    /\ allowed = <<>> /\ selected = {} /\ topc = "split"
    /\ FeedIdle
    /\ OverlayIdle

NextTopics ==
    \/ SplitFilter
    \/ SelectTopics

SpecTopics == InitTopics /\ [][NextTopics]_vars

----------------------------------------------------------------------------
(* Claims about YTFeed::from_channels *)

\* What the joins of lines 282-284 concatenate: the returned lists, in the
\* order of the channels.
RECURSIVE ConcatUpTo(_)
ConcatUpTo(n) == IF n = 0 THEN <<>> ELSE ConcatUpTo(n - 1) \o JoinResult(n)

Concatenation == ConcatUpTo(Len(channels))

PosIn(s, v) == CHOOSE k \in 1..Len(s) : s[k] = v

Descending(s) == \A k \in 1..(Len(s) - 1) : s[k].timestamp >= s[k + 1].timestamp

\* The multiset of the elements of a sequence.
SeqBag(s) ==
    [v \in {s[k] : k \in 1..Len(s)} |-> Cardinality({k \in 1..Len(s) : s[k] = v})]

RECURSIVE SucceededBag(_)
SucceededBag(n) ==
    IF n = 0 THEN EmptyBag
    ELSE SucceededBag(n - 1) (+)
         (IF outcome[n].ok THEN SeqBag(outcome[n].vids) ELSE EmptyBag)

\* C1: whatever the tasks end with, the feed from_channels returns is ordered
\* by timestamp non-increasing.
C1_FeedSortedDescending ==
    fpc = "done" => Descending(videos)

\* C1 witness: a returned feed of three or more videos whose concatenation
\* was not in descending order.
C1_Witness ==
    /\ fpc = "done"
    /\ Len(videos) >= 3
    /\ ~Descending(Concatenation)

\* C2 (as claimed): videos of equal timestamp keep in the feed the relative
\* order they had in the concatenation of the per-channel lists.
C2_TiesKeepConcatOrder ==
    fpc = "done" =>
        \A a, b \in 1..Len(videos) :
            (a < b /\ videos[a].timestamp = videos[b].timestamp)
                => PosIn(Concatenation, videos[a]) < PosIn(Concatenation, videos[b])

\* C2 (amended): videos of equal timestamp appear in the feed in the REVERSE
\* of the relative order they had in the concatenation: the stable ascending
\* sort keeps them in order and reverse() then turns them round.
C2_TiesReverseConcatOrder ==
    fpc = "done" =>
        \A a, b \in 1..Len(videos) :
            (a < b /\ videos[a].timestamp = videos[b].timestamp)
                => PosIn(Concatenation, videos[a]) > PosIn(Concatenation, videos[b])

\* C2 witness: a returned feed with a tie inside one channel's list and a tie
\* between two channels.
C2_Witness ==
    /\ fpc = "done"
    /\ \E a, b \in 1..Len(videos) :
         /\ a < b /\ videos[a].timestamp = videos[b].timestamp
         /\ videos[a].id[1] = videos[b].id[1]
    /\ \E a, b \in 1..Len(videos) :
         /\ a < b /\ videos[a].timestamp = videos[b].timestamp
         /\ videos[a].id[1] # videos[b].id[1]

\* C3: a task that fails or panics contributes nothing and changes nothing
\* else: from_channels goes on to sort only when every spawned task has ended,
\* and the feed it returns holds exactly the videos (as a multiset) of the
\* lists returned by the tasks that succeeded.
C3_FailureIsolated ==
    /\ fpc \in {"sort", "reverse", "done"} =>
           /\ spawned = Len(channels)
           /\ \A i \in TaskIds : TaskEnded(i)
    /\ fpc = "done" => SeqBag(videos) = SucceededBag(Len(channels))

\* C3 witness: a returned feed where one task panicked and another returned
\* a non-empty list.
C3_Witness ==
    /\ fpc = "done"
    /\ \E i \in TaskIds : tpc[i] = "panicked"
    /\ \E i \in TaskIds : tpc[i] = "returned" /\ tres[i] # <<>>
    /\ videos # <<>>

----------------------------------------------------------------------------
(* Claims about YTChannel::videos *)

SawFresh(i) == tseen[i].checked /\ tseen[i].exists /\ tseen[i].age <= CacheMaxAge
SawStale(i) == tseen[i].checked /\ (~tseen[i].exists \/ tseen[i].age > CacheMaxAge)

\* C4: videos() makes a network request if and only if the cache file is
\* absent or older than 1800 s: a call that found an entry of age <= 1800 s
\* goes straight to reading it, with no request and no write of its own;
\* a call that found no entry or an older one makes the request next.
C4_FetchIffAbsentOrStale ==
    \A i \in TaskIds :
        /\ SawFresh(i) =>
              /\ tnet[i] = 0
              /\ twrites[i] = 0
              /\ tpc[i] \in {"read", "returned", "panicked"}
        /\ SawStale(i) => (tpc[i] = "get" /\ tnet[i] = 0) \/ tnet[i] = 1
        /\ (tpc[i] = "returned" /\ tnet[i] = 0) => SawFresh(i)

\* C4 witness: one call found an entry aged exactly 1800 s and returned its
\* list without a request, another found one aged 1801 s and made one.
C4_Witness ==
    \E i, j \in TaskIds :
        /\ tseen[i].checked /\ tseen[i].exists /\ tseen[i].age = CacheMaxAge
        /\ tpc[i] = "returned" /\ tnet[i] = 0 /\ tres[i] = CachedFeed(channels[i])
        /\ tseen[j].checked /\ tseen[j].exists /\ tseen[j].age = CacheMaxAge + 1
        /\ tpc[j] = "returned" /\ tnet[j] = 1

----------------------------------------------------------------------------
(* Claims about the overlay: YTCli::ueberzug, YTVideo::thumbnail, main *)

\* A preview thread that has come out of call_once (line 400).
PastOnce(p) == ppc[p] \in {"check", "remove", "get", "create", "write", "add", "done"}

\* C5: the overlay process and its consumer thread are created at most once
\* in a run, and by a thumbnail request: none exists before the first request
\* has run the initializer, every request that comes out of call_once finds
\* the overlay initialized (process spawned, Sender stored), and the controller
\* never goes backwards: once running it is never uninitialized again, once
\* terminated it stays terminated, and no step after that spawns a process.
C5_OverlayCreatedOnce ==
    /\ [](/\ spawns <= 1
          /\ cothreads <= 1
          /\ (costate = "none") <=> (spawns = 0)
          /\ (spawns = 1) <=> (once = "done")
          /\ \A p \in PreviewIds : PastOnce(p) => (once = "done" /\ tx /\ spawns = 1))
    /\ [][/\ costate # "none" => costate' # "none"
          /\ costate \in {"exited", "panicked"} =>
                (costate' = costate /\ spawns' = spawns /\ cothreads' = cothreads)]_vars

\* C5 witness: the session loop went round, two thumbnail requests both came
\* out of call_once and ran to their end, Exit has been processed, and one
\* overlay process was spawned in all.
C5_Witness ==
    /\ \A p \in PreviewIds : ppc[p] = "done"
    /\ sessions = MaxSelections + 1
    /\ costate = "exited"
    /\ spawns = 1
    /\ cothreads = 1

Range(s) == {s[k] : k \in 1..Len(s)}

\* The commands enqueued before the first Exit (all of them if there is none).
BeforeExit(s) ==
    IF ExitCmd \in Range(s)
    THEN SubSeq(s, 1, (CHOOSE k \in 1..Len(s) :
                          s[k] = ExitCmd /\ \A j \in 1..(k - 1) : s[j] # ExitCmd) - 1)
    ELSE s

LinesOf(s) == [k \in 1..Len(s) |-> LineOf(s[k])]

IsCommandLine(l) == l.by = "command"

\* The lines written for dequeued commands, without the resize replays.
CommandLines == SelectSeq(written, IsCommandLine)

\* C6 (as claimed, its safety part): once Exit is enqueued and the consumer
\* has stopped, every command enqueued before Exit has been written to the
\* overlay's stdin.
C6_DrainThenStop ==
    (ExitCmd \in Range(enq) /\ costate # "running")
        => CommandLines = LinesOf(BeforeExit(enq))

\* C6 (amended): while the process lives, an enqueued Exit leads to the
\* consumer stopping, by dequeuing it or by a panic before it gets there; a
\* consumer that has dequeued Exit has written every command enqueued before
\* it, in order; and neither the round that dequeues Exit nor anything after
\* the consumer has stopped writes a line, whatever is enqueued after Exit
\* and whatever resize is pending.
C6_DrainUnlessPanicked ==
    /\ [](costate = "exited" =>
             /\ ExitCmd \in Range(enq)
             /\ CommandLines = LinesOf(BeforeExit(enq)))
    /\ [][(costate' = "exited" \/ costate # "running") => written' = written]_vars
    /\ (ExitCmd \in Range(queue)) ~> (costate # "running" \/ ~Alive)

\* C6 witness: the consumer has dequeued Exit after two or more commands,
\* a command enqueued after Exit is left in the queue, and a resize is
\* pending that will not be replayed.
C6_Witness ==
    /\ costate = "exited"
    /\ Len(BeforeExit(enq)) >= 2
    /\ queue # <<>>
    /\ sig
    /\ lastaction = ExitCmd

\* C7: once main has sent the session-end Exit (line 570), a consumer thread
\* that is running has that Exit in its queue, so it will receive it and
\* terminate: the overlay is never left running with no Exit on its way.
C7_ExitReachesConsumer ==
    (exitsent /\ costate = "running") => ExitCmd \in Range(queue)

IsPrefix(s, t) == Len(s) <= Len(t) /\ s = SubSeq(t, 1, Len(s))

\* C8: thumbnail(w) for video v sends nothing before it has tested the file.
\* File absent: it sends Remove first and nothing but Remove until its own
\* download and file write have succeeded, then Add(v.id, w); a request that
\* ended in a panic on the way has sent no Add. File present: it sends
\* Add(v.id, w) and never a Remove.
C8_ThumbnailSendOrder ==
    \A p \in PreviewIds :
        LET add == AddCmd(pvid[p], pw[p]) IN
        /\ pfound[p] = "unknown" => psent[p] = <<>>
        /\ pfound[p] = "absent" =>
              /\ IsPrefix(psent[p], <<RemoveCmd, add>>)
              /\ ppc[p] \in {"get", "create", "write", "add"} => psent[p] = <<RemoveCmd>>
              /\ add \in Range(psent[p]) => pstored[p]
              /\ ppc[p] = "done" => psent[p] = <<RemoveCmd, add>>
        /\ pfound[p] = "present" =>
              /\ IsPrefix(psent[p], <<add>>)
              /\ ~pstored[p]
              /\ ppc[p] = "done" => psent[p] = <<add>>

\* C8 witness: one request found no file, and has sent Remove and, after
\* storing the download, Add; another found the file and has sent Add alone.
C8_Witness ==
    \E p, q \in PreviewIds :
        /\ pfound[p] = "absent" /\ ppc[p] = "done"
        /\ psent[p] = <<RemoveCmd, AddCmd(pvid[p], pw[p])>>
        /\ pfound[q] = "present" /\ ppc[q] = "done"
        /\ psent[q] = <<AddCmd(pvid[q], pw[q])>>

\* C9: a failed write to the overlay's stdin, which ends the consumer thread,
\* does not end the program: main's later Remove and Exit sends do not
\* terminate it.
C9_WriteFailureStopsOverlayOnly ==
    copanic = "write" => ~(mpc = "panicked" /\ mpanic = "send")

\* C10: a player that cannot be launched for a non-empty selection does not
\* end the selection loop: main is never stopped by the failed launch.
C10_PlayerFailureContinues ==
    ~(mpc = "panicked" /\ mpanic = "mpv")

\* C11: when the overlay cannot be initialized (YTCli::ueberzug panics inside
\* call_once), the failure stays in the preview threads: no overlay process or
\* consumer exists, the Sender stays unset and nothing is ever enqueued, every
\* thumbnail request has ended in a panic or has not yet reached call_once,
\* main is not stopped by a send, and each send main makes (Remove at line
\* 547, Exit at line 570) succeeds and takes main on to the player launch or
\* to the cache sweep.
C11_InitFailureContained ==
    /\ [](once = "poisoned" =>
             /\ ~tx /\ spawns = 0 /\ cothreads = 0 /\ costate = "none"
             /\ queue = <<>> /\ enq = <<>>
             /\ \A p \in PreviewIds : ppc[p] \in {"idle", "once", "panicked"}
             /\ \E p \in PreviewIds : ppc[p] = "panicked"
             /\ ~(mpc = "panicked" /\ mpanic = "send"))
    /\ [][(once = "poisoned" /\ mpc # mpc') =>
             /\ mpc = "remove" => mpc' = "mpv"
             /\ mpc = "exit" => (mpc' = "clean" /\ exitsent')]_vars

\* C11 witness: initialization failed under the first request, a later request
\* panicked in call_once too, and main went through a player launch, the
\* final Exit send and the cache sweep to its end.
C11_Witness ==
    /\ once = "poisoned"
    /\ \A p \in PreviewIds : ppc[p] = "panicked"
    /\ sessions = MaxSelections + 1
    /\ exitsent /\ swept /\ mpc = "exited"

----------------------------------------------------------------------------
(* Claims about the feed cache under concurrent tasks *)

\* Task i has created the cache file and its xq has not yet been waited for
\* (lines 344-359); task i is at opening and reading the file (lines 362-364).
WritingFile(i) == tpc[i] = "xq"
ReadingFile(i) == tpc[i] = "read"

SameFile(i, j) == i # j /\ channels[i] = channels[j]

\* C12: for every channel list, also one that names a channel twice, no two
\* tasks are writing the same cache file at once, and no task is reading a
\* cache file that another task is writing.
C12_TasksKeepToOwnFile ==
    \A i, j \in TaskIds :
        SameFile(i, j) =>
            /\ ~(WritingFile(i) /\ WritingFile(j))
            /\ ~(ReadingFile(i) /\ WritingFile(j))

\* C13: a call of videos() that has written to the channel's cache file and
\* has ended, by returning or by a panic, with no other task still writing the
\* file, leaves a complete entry there, never an empty or truncated file.
C13_CacheFileNeverPartial ==
    \A i \in TaskIds :
        (/\ TaskEnded(i)
         /\ twrites[i] > 0
         /\ \A j \in TaskIds : SameFile(i, j) => ~WritingFile(j))
            => (file[channels[i]].exists /\ file[channels[i]].valid)

----------------------------------------------------------------------------
(* Claims about the lines the consumer writes *)

\* The position in `written` of the n-th line written for a dequeued command.
CmdPos(n) ==
    CHOOSE m \in 1..Len(written) :
        /\ IsCommandLine(written[m])
        /\ Cardinality({j \in 1..m : IsCommandLine(written[j])}) = n

\* C14: every dequeued Add or Remove yields one line, in the order of the
\* queue; and for a Remove with an Add(v, w) enqueued right after it, no add
\* line at all (so none for an earlier video, whatever resizes come) is
\* written between the remove line and the line of that Add, which carries v
\* and w.
C14_NoStaleAddAfterRemove ==
    /\ IsPrefix(CommandLines, LinesOf(BeforeExit(enq)))
    /\ \A k \in 1..(Len(CommandLines) - 1) :
         (enq[k] = RemoveCmd /\ enq[k + 1].op = "add") =>
            /\ written[CmdPos(k)] = RemoveLine
            /\ written[CmdPos(k + 1)] = AddLine(enq[k + 1].id, enq[k + 1].w)
            /\ \A m \in (CmdPos(k) + 1)..(CmdPos(k + 1) - 1) : written[m].action # "add"

\* C14 witness: an add line for one video, the remove line and the add line
\* for another video have been written one after the other, and the resize
\* event of the run has been taken without a replay.
C14_Witness ==
    /\ resizes = MaxResizes /\ ~sig
    /\ \E m \in 1..(Len(written) - 2) :
         /\ written[m].action = "add"
         /\ written[m + 1] = RemoveLine
         /\ written[m + 2].action = "add" /\ IsCommandLine(written[m + 2])
         /\ written[m + 2].id # written[m].id
    /\ \A m \in 1..Len(written) : IsCommandLine(written[m])

\* The lines a step appends to the overlay's stdin, and the resize replays
\* among them.
NewLines == SubSeq(written', Len(written) + 1, Len(written'))
IsResizeLine(l) == l.by = "resize"
NewResizeLines == SelectSeq(NewLines, IsResizeLine)

\* A step in which the consumer takes the pending resize event, with tput
\* run and the overlay reading its stdin.
TakesResize == sig /\ ~sig' /\ pipe /\ costate' = "running"

IsAddCommandLine(l) == l.by = "command" /\ l.action = "add"
\* The add lines written for dequeued Adds, i.e. the Adds processed.
AddsProcessed(w) == SelectSeq(w, IsAddCommandLine)
Last(s) == s[Len(s)]

\* The commands the consumer has received so far.
Dequeued(e, q) == SubSeq(e, 1, Len(e) - Len(q))

\* C15 (as claimed): on every resize event the consumer takes, if some Add
\* has been processed it writes one add line for the video of the most
\* recent such Add, with the placement computed from the terminal width; if
\* none has been processed it writes nothing.
C15_ResizeReplaysLastAdd ==
    [][TakesResize =>
          IF AddsProcessed(written') # <<>>
          THEN \E cols \in TermCols :
                  NewResizeLines = <<ResizeLine(Last(AddsProcessed(written')).id, cols)>>
          ELSE NewResizeLines = <<>>]_vars

\* C15 (amended): the consumer remembers the most recent command it has
\* received, Remove included. On a resize event it takes, if that command is
\* an Add it writes one add line for that Add's video with the placement
\* computed from the terminal width; if that command is a Remove, or none
\* has been received yet, it writes nothing. No other step writes a replay.
C15_ResizeReplaysLastCommand ==
    /\ [](costate = "running" =>
             lastaction = IF Dequeued(enq, queue) = <<>> THEN NoCmd
                          ELSE Last(Dequeued(enq, queue)))
    /\ [][/\ TakesResize =>
                IF Dequeued(enq', queue') # <<>> /\ Last(Dequeued(enq', queue')).op = "add"
                THEN \E cols \in TermCols :
                        NewResizeLines =
                            <<ResizeLine(Last(Dequeued(enq', queue')).id, cols)>>
                ELSE NewResizeLines = <<>>
          /\ ~(sig /\ ~sig') => NewResizeLines = <<>>]_vars

\* C15 witness: after the Adds of two videos the resize has been taken and
\* the replay written for the later one, with the placement of a terminal
\* 100 columns wide.
C15_Witness ==
    /\ Len(AddsProcessed(written)) = 2
    /\ AddsProcessed(written)[1].id # AddsProcessed(written)[2].id
    /\ lastaction.op = "add"
    /\ Last(written) = ResizeLine(lastaction.id, 100)
    /\ Last(AddsProcessed(written)).id = lastaction.id

IsNotExit(c) == c.op # "exit"
NonExit(s) == SelectSeq(s, IsNotExit)
Front(s) == SubSeq(s, 1, Len(s) - 1)

\* The lines the consumer can write (lines 187-195, 216-223).
Lines ==
    {RemoveLine}
        \cup {AddLine(v, w) : v \in ThumbVideos, w \in PreviewWidths}
        \cup {ResizeLine(v, c) : v \in ThumbVideos, c \in TermCols}

\* The commands thread `who` has sent, with their places in the queue's
\* history, in the order of that history.
Tagged == [k \in 1..Len(enq) |-> [cmd |-> enq[k], by |-> enqby.by[k], k |-> k]]
OfThread(who) == SelectSeq(Tagged, LAMBDA e : e.by = who)
CmdsOf(who) == [i \in 1..Len(OfThread(who)) |-> OfThread(who)[i].cmd]

\* The commands of one thread reach the queue in the order the thread sent
\* them, and those of them that have been written were written in that order,
\* each as its own line.
ProducerOrder ==
    /\ \A p \in PreviewIds : CmdsOf(p) = psent[p]
    /\ \A who \in {MainThread} \cup PreviewIds :
         \A i, j \in 1..Len(OfThread(who)) :
            (i < j /\ OfThread(who)[j].k <= Len(CommandLines)) =>
               /\ CmdPos(OfThread(who)[i].k) < CmdPos(OfThread(who)[j].k)
               /\ written[CmdPos(OfThread(who)[i].k)] = LineOf(OfThread(who)[i].cmd)
               /\ written[CmdPos(OfThread(who)[j].k)] = LineOf(OfThread(who)[j].cmd)

\* C16 (as claimed): the commands of one producer are written in the order it
\* sent them, every dequeued Add or Remove has yielded exactly one line, and
\* everything written is a whole line.
C16_OneLinePerCommandInOrder ==
    /\ ProducerOrder
    /\ CommandLines = LinesOf(NonExit(Dequeued(enq, queue)))
    /\ \A m \in 1..Len(written) : written[m] \in Lines

\* C16 (amended): the commands of one producer are written in the order it
\* sent them; every dequeued Add or Remove has yielded exactly one line,
\* except the one whose write failed, which has yielded none and on which the
\* consumer has panicked; and everything written is a whole line.
C16_OneLinePerWrittenCommand ==
    /\ ProducerOrder
    /\ CommandLines =
          LinesOf(NonExit(IF copanic = "write"
                          THEN Front(Dequeued(enq, queue))
                          ELSE Dequeued(enq, queue)))
    /\ \A m \in 1..Len(written) : written[m] \in Lines

\* C16 witness: the commands of two preview threads alternate on the queue
\* (Remove of one, Add of the other, Add of the first), all three have been
\* written, and a resize replay has been written as well.
C16_Witness ==
    /\ enqby.on
    /\ Len(enq) = 3 /\ Len(CommandLines) = 3
    /\ enqby.by[1] = enqby.by[3] /\ enqby.by[1] # enqby.by[2]
    /\ MainThread \notin Range(enqby.by)
    /\ \E m \in 1..Len(written) : IsResizeLine(written[m])

----------------------------------------------------------------------------
(* Claims about the thumbnail cache under overlapping requests *)

\* The requests for video v that have made the download of line 408, and
\* those that have written the file (line 411).
Downloaded(v) ==
    {p \in PreviewIds : /\ pvid[p] = v /\ pfound[p] = "absent"
                        /\ ppc[p] \in {"create", "write", "add", "done"}}
Stored(v) == {p \in PreviewIds : pvid[p] = v /\ pstored[p]}

\* C17: however the thumbnail requests for one video overlap, at most one of
\* them downloads the thumbnail and at most one writes the file.
C17_ThumbnailFetchedOnce ==
    \A v \in ThumbVideos :
        /\ Cardinality(Downloaded(v)) <= 1
        /\ Cardinality(Stored(v)) <= 1

----------------------------------------------------------------------------
(* Claims about YTCli::topics *)

\* C18: topics(filter) never returns the section "default", and returns any
\* other configured section if and only if the filter is empty or the
\* section's name is a substring of the filter string.
C18_TopicsBySubstringOfFilter ==
    topc = "done" =>
        /\ DefaultName \notin selected
        /\ \A t \in config \ {DefaultName} :
              t \in selected <=> (filter = <<>> \/ Contains(filter, t))

----------------------------------------------------------------------------
(* Claims about previews still in flight *)

\* The places in the queue's history of the Removes main has sent.
MainRemoves == {k \in 1..Len(enq) : enqby.by[k] = MainThread /\ enq[k] = RemoveCmd}

\* C19: between main's Remove for a non-empty selection (line 547) and the
\* player's exit (line 563), once the consumer has written the line of that
\* Remove it writes no add line.
C19_NoImageWhilePlayerRuns ==
    (mpc \in {"mpv", "wait"} /\ MainRemoves # {}) =>
        LET k == CHOOSE k \in MainRemoves : \A j \in MainRemoves : j <= k
        IN k <= Len(CommandLines) =>
              \A m \in (CmdPos(k) + 1)..Len(written) : written[m].action # "add"

\* C20: a thumbnail call sends its Add (line 414) only when the thumbnail
\* file of its video is completely written.
C20_AddOnlyForCompleteFile ==
    [][\A p \in PreviewIds :
          (ppc[p] = "add" /\ ppc'[p] = "done") => thumb[pvid[p]] = "complete"]_vars

====
